---- MODULE Spec2Model ----
(***************************************************************************)
(* Haunted Chessboard (src/haunted_chessboard.py).                         *)
(*                                                                         *)
(* A Python string is modelled as a sequence of one-character strings, so  *)
(* that indexing, stripping, case folding and pattern matching are         *)
(* computed character by character as the interpreter computes them.       *)
(*                                                                         *)
(* Four specifications share the variables:                                *)
(*   SpecFormat  ChessBoard.is_valid_move_format on bounded move strings   *)
(*   SpecLookup  ChessBoard.get_piece_at on the three rooms' boards        *)
(*   SpecFen     ChessBoard.__init__/parse_fen followed by get_piece_at    *)
(*   SpecGame    HauntedChessboard.play / play_room. The program waits at  *)
(*               its input() calls and in time.sleep; an input() call      *)
(*               returns a line or raises (EOFError at the end of stdin,   *)
(*               KeyboardInterrupt), a sleep ends or is interrupted        *)
(*               (KeyboardInterrupt); an exception leaves play() at once   *)
(*               and main() catches it (lines 422-425).                    *)
(***************************************************************************)
EXTENDS Integers, Sequences, FiniteSets, TLC

VARIABLES
    \* ChessBoard.is_valid_move_format
    move,            \* the argument
    format_result,   \* "unset" before the call, then "True" / "False"
    \* ChessBoard
    fen,             \* the constructor's argument
    board,           \* self.board: row -> col -> piece code
    to_move,         \* self.to_move
    written,         \* history: the cells parse_fen assigned, <<row, col, piece>>
    board_pc,        \* "new" | "parsed" | "raised" (the constructor raised)
    square,          \* get_piece_at's argument
    lookup,          \* get_piece_at's outcome: [exc, val]
    \* HauntedChessboard
    player_health,
    current_room,
    solved,          \* room index -> rooms[i].solved
    game_over,
    pc,              \* position in play()/play_room()
    line,            \* the text input() returned last in play_room, before .strip()
    prompt,          \* the last input() call: "none" | "returned" | "raised"
    ending,          \* history: which terminal branch ran
    wrong_moves      \* history: number of times line 382 ran

boardVars == <<fen, board, to_move, written, board_pc, square, lookup>>
formatVars == <<move, format_result>>
gameVars == <<player_health, current_room, solved, game_over, pc, line, prompt, ending,
              wrong_moves>>
vars == <<move, format_result, fen, board, to_move, written, board_pc, square, lookup,
          player_health, current_room, solved, game_over, pc, line, prompt, ending,
          wrong_moves>>

(***************************************************************************)
(* Characters                                                              *)
(***************************************************************************)
\* The printable ASCII characters, code points 32..126, in order (code point 96
\* is held by a placeholder no string of the model contains).
AsciiChars ==
    <<" ", "!", "\"", "#", "$", "%", "&", "'", "(", ")", "*", "+", ",", "-", ".", "/",
      "0", "1", "2", "3", "4", "5", "6", "7", "8", "9", ":", ";", "<", "=", ">", "?",
      "@", "A", "B", "C", "D", "E", "F", "G", "H", "I", "J", "K", "L", "M", "N", "O",
      "P", "Q", "R", "S", "T", "U", "V", "W", "X", "Y", "Z", "[", "\\", "]", "^", "_",
      "<grave>", "a", "b", "c", "d", "e", "f", "g", "h", "i", "j", "k", "l", "m", "n", "o",
      "p", "q", "r", "s", "t", "u", "v", "w", "x", "y", "z", "{", "|", "}", "~">>

\* The ASCII control characters Python counts as whitespace, with their code
\* points; those without a string escape are held by a name.
ControlChars ==
    << <<"\t", 9>>, <<"\n", 10>>, <<"<vt>", 11>>, <<"\f", 12>>, <<"\r", 13>>,
       <<"<fs>", 28>>, <<"<gs>", 29>>, <<"<rs>", 30>>, <<"<us>", 31>> >>

\* character -> code point
OrdTable ==
    [c \in {AsciiChars[i] : i \in 1..Len(AsciiChars)}
            \cup {ControlChars[i][1] : i \in 1..Len(ControlChars)} |->
        IF \E i \in 1..Len(ControlChars) : ControlChars[i][1] = c
        THEN ControlChars[CHOOSE i \in 1..Len(ControlChars) : ControlChars[i][1] = c][2]
        ELSE 31 + (CHOOSE i \in 1..Len(AsciiChars) : AsciiChars[i] = c)]

\* ord(c)
Ord(c) == OrdTable[c]

\* chr(n) for the printable range
Chr(n) == AsciiChars[n - 31]

\* str.lower() of one character
LowerChar(c) == LET o == Ord(c) IN IF o >= 65 /\ o <= 90 THEN Chr(o + 32) ELSE c

\* str.lower()
Lower(s) == [i \in 1..Len(s) |-> LowerChar(s[i])]

\* str.isspace() of one ASCII character: space, \t \n \x0b \x0c \r and
\* \x1c-\x1f
IsSpace(c) == LET o == Ord(c) IN o = 32 \/ (9 <= o /\ o <= 13) \/ (28 <= o /\ o <= 31)

\* str.isdigit() of one character
IsDigit(c) == LET o == Ord(c) IN o >= 48 /\ o <= 57

\* int(c) of one character: the value, or -1 where int() raises ValueError
IntOfChar(c) == IF IsDigit(c) THEN Ord(c) - 48 ELSE -1

RECURSIVE LStrip(_)
LStrip(s) == IF s # <<>> /\ IsSpace(Head(s)) THEN LStrip(Tail(s)) ELSE s

RECURSIVE RStrip(_)
RStrip(s) ==
    IF s # <<>> /\ IsSpace(s[Len(s)]) THEN RStrip(SubSeq(s, 1, Len(s) - 1)) ELSE s

\* str.strip()
Strip(s) == RStrip(LStrip(s))

\* all sequences over S of length at most n
RECURSIVE SeqsUpTo(_, _)
SeqsUpTo(S, n) ==
    IF n = 0 THEN {<<>>}
    ELSE LET shorter == SeqsUpTo(S, n - 1)
         IN  shorter \cup {Append(s, c) : s \in {t \in shorter : Len(t) = n - 1}, c \in S}

\* n copies of c
Rep(c, n) == [i \in 1..n |-> c]

(***************************************************************************)
(* ChessBoard.is_valid_move_format                                         *)
(***************************************************************************)
IsPieceLetter(c) == c \in {"K", "Q", "R", "B", "N"}
IsFileLetter(c) == c \in {"a", "b", "c", "d", "e", "f", "g", "h"}
IsRankDigit(c) == c \in {"1", "2", "3", "4", "5", "6", "7", "8"}

\* The eight regular expressions of `patterns`, without their anchors:
\* s is exactly a string of the pattern's shape.
PatternBody(k, s) ==
    CASE k = 1 -> Len(s) = 3 /\ IsPieceLetter(s[1]) /\ IsFileLetter(s[2]) /\ IsRankDigit(s[3])
      [] k = 2 -> Len(s) = 2 /\ IsFileLetter(s[1]) /\ IsRankDigit(s[2])
      [] k = 3 -> Len(s) = 4 /\ IsPieceLetter(s[1]) /\ s[2] = "x"
                             /\ IsFileLetter(s[3]) /\ IsRankDigit(s[4])
      [] k = 4 -> Len(s) = 4 /\ IsFileLetter(s[1]) /\ s[2] = "x"
                             /\ IsFileLetter(s[3]) /\ IsRankDigit(s[4])
      [] k = 5 -> s = <<"O", "-", "O">>
      [] k = 6 -> s = <<"O", "-", "O", "-", "O">>
      [] k = 7 -> Len(s) = 4 /\ IsPieceLetter(s[1]) /\ IsFileLetter(s[2])
                             /\ IsRankDigit(s[3]) /\ s[4] = "+"
      [] k = 8 -> Len(s) = 4 /\ IsPieceLetter(s[1]) /\ IsFileLetter(s[2])
                             /\ IsRankDigit(s[3]) /\ s[4] = "#"

NumPatterns == 8

\* re.match(r'^...$', s): without re.MULTILINE, '$' matches at the end of the
\* string and also just before a newline that is the string's last character.
ReMatch(k, s) ==
    \/ PatternBody(k, s)
    \/ /\ Len(s) >= 1
       /\ s[Len(s)] = "\n"
       /\ PatternBody(k, SubSeq(s, 1, Len(s) - 1))

\* A validator that forgets the two annotated patterns.
is_valid_move_format_NoSuffix(m) == \E k \in 1..6 : ReMatch(k, m)

is_valid_move_format(m) == \E k \in 1..NumPatterns : ReMatch(k, m)

\* Bounds of the move strings SpecFormat enumerates
MaxMoveLen == 5
MoveChars == {"Q", "e", "x", "8", "+", "\n"}

\* The validator truth table of the specification, and the other shapes
MoveExamples ==
    { <<"Q", "h", "5">>, <<"e", "4">>, <<"Q", "x", "h", "5">>, <<"e", "x", "d", "5">>,
      <<"O", "-", "O">>, <<"O", "-", "O", "-", "O">>, <<"Q", "h", "5", "+">>,
      <<"Q", "h", "5", "#">>, <<"Z", "9">>, <<"h", "9">>, <<>>, <<"q", "h", "5">>,
      <<"Q", "x", "h", "5", "+">>, <<"Q", "x", "h", "5", "#">>, <<"Q", "h", "5", "\n">>,
      <<"O", "-", "O", "\n">>, <<" ", "Q", "h", "5">>, <<"e", "x", "d", "5", "+">> }

MoveInputs == SeqsUpTo(MoveChars, MaxMoveLen) \cup MoveExamples

\* one call of is_valid_move_format(move)
IsValidMoveFormat ==
    /\ format_result = "unset"
    /\ format_result' = IF is_valid_move_format(move) THEN "True" ELSE "False"
    /\ UNCHANGED move

(***************************************************************************)
(* ChessBoard: __init__, parse_fen, get_piece_at                           *)
(***************************************************************************)
BoardSize == 8
Cells == 0..(BoardSize - 1)

\* [[' ' for _ in range(8)] for _ in range(8)]
BlankBoard == [r \in Cells |-> [c \in Cells |-> " "]]

\* str.split(): the maximal runs of non-whitespace characters
RECURSIVE SplitFrom(_, _, _, _)
SplitFrom(s, i, cur, acc) ==
    IF i > Len(s) THEN (IF cur = <<>> THEN acc ELSE Append(acc, cur))
    ELSE IF IsSpace(s[i])
         THEN SplitFrom(s, i + 1, <<>>, IF cur = <<>> THEN acc ELSE Append(acc, cur))
         ELSE SplitFrom(s, i + 1, Append(cur, s[i]), acc)

Split(s) == SplitFrom(s, 1, <<>>, <<>>)

\* The loop of parse_fen over board_part from position i on: the board and
\* the set of cells assigned, <<row, col, piece>>.
RECURSIVE ParseLoop(_, _, _, _, _, _)
ParseLoop(bp, i, row, col, b, w) ==
    IF i > Len(bp) THEN [board |-> b, written |-> w]
    ELSE LET char == bp[i] IN
         IF char = "/" THEN ParseLoop(bp, i + 1, row + 1, 0, b, w)
         ELSE IF IsDigit(char) THEN ParseLoop(bp, i + 1, row, col + IntOfChar(char), b, w)
         ELSE IF row < BoardSize /\ col < BoardSize
              THEN ParseLoop(bp, i + 1, row, col + 1,
                             [b EXCEPT ![row][col] = char], w \cup {<<row, col, char>>})
              ELSE ParseLoop(bp, i + 1, row, col, b, w)

\* parse_fen(fen) on a board b0 whose to_move is tm0: parts[0] raises
\* IndexError when fen has no field.
parse_fen(b0, tm0, f) ==
    LET parts == Split(f) IN
    IF Len(parts) = 0
    THEN [exc |-> "IndexError", board |-> b0, to_move |-> tm0, written |-> {}]
    ELSE LET r == ParseLoop(parts[1], 1, 0, 0, b0, {})
         IN  [exc |-> "none", board |-> r.board,
              to_move |-> IF Len(parts) > 1 THEN parts[2] ELSE <<"w">>,
              written |-> r.written]

\* A lookup that forgets that row 0 is rank 8.
get_piece_at_NoFlip(b, sq) ==
    IF Len(sq) # 2 THEN [exc |-> "none", val |-> " "]
    ELSE LET col == Ord(LowerChar(sq[1])) - Ord("a")
             digit == IntOfChar(sq[2])
             row == digit - 1
         IN  IF digit = -1 THEN [exc |-> "ValueError", val |-> ""]
             ELSE IF 0 <= row /\ row < BoardSize /\ 0 <= col /\ col < BoardSize
                  THEN [exc |-> "none", val |-> b[row][col]]
                  ELSE [exc |-> "none", val |-> " "]

\* get_piece_at(square): the piece code, or the exception int() raises on a
\* second character that is no digit.
get_piece_at(b, sq) ==
    IF Len(sq) # 2 THEN [exc |-> "none", val |-> " "]
    ELSE LET col == Ord(LowerChar(sq[1])) - Ord("a")
             digit == IntOfChar(sq[2])
             row == BoardSize - digit
         IN  IF digit = -1 THEN [exc |-> "ValueError", val |-> ""]
             ELSE IF 0 <= row /\ row < BoardSize /\ 0 <= col /\ col < BoardSize
                  THEN [exc |-> "none", val |-> b[row][col]]
                  ELSE [exc |-> "none", val |-> " "]

\* The position descriptions of create_rooms
RoomFen(i) ==
    CASE i = 0 -> <<"6","k","1","/","5","p","p","p","/","8","/","8","/","8","/","8","/",
                    "5","P","P","P","/","4","Q","1","K","1"," ","w"," ","-"," ","-"," ",
                    "0"," ","1">>
      [] i = 1 -> <<"r","3","k","2","r","/","p","p","p","2","p","p","p","/","2","n","5","/",
                    "2","b","q","p","3","/","2","B","1","P","3","/","3","P","1","N","2","/",
                    "P","P","P","2","P","P","P","/","R","1","B","Q","K","2","R"," ","w"," ",
                    "K","Q","k","q"," ","-"," ","0"," ","1">>
      [] i = 2 -> <<"6","k","1","/","6","p","p","/","8","/","8","/","8","/","8","/",
                    "6","P","P","/","R","5","K","1"," ","w"," ","-"," ","-"," ","0"," ","1">>

NumRooms == 3
RoomIds == 0..(NumRooms - 1)

\* Bounds of the position descriptions SpecFen enumerates: up to MaxLead rank
\* delimiters followed by up to MaxFenTail characters of FenChars.
MaxLead == 8
MaxFenTail == 3
FenChars == {"/", "7", "p", " ", "b"}
FenInputs ==
    {Rep("/", k) \o t : k \in 0..MaxLead, t \in SeqsUpTo(FenChars, MaxFenTail)}
        \cup {RoomFen(i) : i \in RoomIds}
        \cup {<<"p", "\f", "b">>, <<"<vt>">>, <<"7", "p", "<us>", "w", "\t", "-">>}

\* Bounds of the square labels SpecLookup enumerates
MaxSquareLen == 2
SquareChars == {"a", "h", "i", "A", "0", "1", "8", "9", "x", " "}
SquareInputs ==
    SeqsUpTo(SquareChars, MaxSquareLen) \cup {<<"a", "1", "1">>, <<"e", "4", "x">>}

\* The label of the cell (row r, column c): file letter 'a'+c, rank digit 8-r
SquareLabel(r, c) == <<Chr(Ord("a") + c), Chr(Ord("0") + BoardSize - r)>>
CellLabels == {SquareLabel(r, c) : r \in Cells, c \in Cells}

NoLookup == [exc |-> "uncalled", val |-> ""]

\* ChessBoard(fen): lines 18-20
ConstructBoard ==
    /\ board_pc = "new"
    /\ LET r == parse_fen(BlankBoard, <<"w">>, fen) IN
         /\ board' = r.board
         /\ to_move' = r.to_move
         /\ written' = r.written
         /\ board_pc' = IF r.exc = "none" THEN "parsed" ELSE "raised"
    /\ UNCHANGED <<fen, square, lookup>>

\* board.get_piece_at(sq) on a constructed board
GetPieceAt(sq) ==
    /\ board_pc = "parsed"
    /\ square' = sq
    /\ lookup' = get_piece_at(board, sq)
    /\ UNCHANGED <<fen, board, to_move, written, board_pc>>

(***************************************************************************)
(* HauntedChessboard: __init__, create_rooms, play_room, play              *)
(***************************************************************************)
\* rooms[i].solution, the lists of create_rooms
RoomSolution(i) ==
    CASE i = 0 -> << <<"Q", "e", "8", "#">>, <<"Q", "e", "8">> >>
      [] i = 1 -> << <<"Q", "d", "5">>, <<"Q", "d", "5", "+">> >>
      [] i = 2 -> << <<"R", "a", "8", "#">>, <<"R", "a", "8">> >>

InitialHealth == 100
WrongMovePenalty == 10

\* str.rstrip of a check or mate annotation
Unannotated(m) ==
    IF m # <<>> /\ m[Len(m)] \in {"+", "#"} THEN SubSeq(m, 1, Len(m) - 1) ELSE m

\* A comparison that ignores the check or mate annotation.
InSolution_IgnoreSuffix(m, i) ==
    \E k \in 1..Len(RoomSolution(i)) : Unannotated(RoomSolution(i)[k]) = Unannotated(m)

\* move in room.solution (line 374)
InSolution(m, i) == \E k \in 1..Len(RoomSolution(i)) : RoomSolution(i)[k] = m

\* move.lower() == 'quit' (line 361)
IsQuit(m) == Lower(m) = <<"q", "u", "i", "t">>

\* move.lower() == 'hint' (line 366)
IsHint(m) == Lower(m) = <<"h", "i", "n", "t">>

\* A format check that is never taken.
FormatRejected_Skipped(m) == FALSE

\* not room.board.is_valid_move_format(move) (line 370)
FormatRejected(m) == ~is_valid_move_format(m)

\* A drain test that misses the zero boundary.
Drained_Strict(h) == h < 0

\* self.player_health <= 0 (line 384)
Drained(h) == h <= 0

\* not room.solved and self.player_health > 0 (line 355)
RoomLoopCond(s, h) == ~s /\ h > 0

\* A main loop that stops one penalty early.
PlayLoopCond_Early(cr, go, h) == cr < NumRooms /\ ~go /\ h > WrongMovePenalty

\* the condition of the main loop (line 402)
PlayLoopCond(cr, go, h) == cr < NumRooms /\ ~go /\ h > 0

\* An advance that skips a room.
NextRoom_Skip(cr) == cr + 2

\* self.current_room += 1 (line 406)
NextRoom(cr) == cr + 1

\* One iteration of the loop of play_room in room i with health h, on the
\* text l that input() returned: the values after the iteration.
\*   returned: play_room returned from inside the loop (quit or drained)
play_room_input(i, h, l) ==
    LET m == Strip(l)
        same == [health |-> h, solved |-> FALSE, game_over |-> FALSE,
                 returned |-> FALSE, branch |-> "none"]
    IN  IF IsQuit(m)
        THEN [same EXCEPT !.game_over = TRUE, !.returned = TRUE, !.branch = "quit"]
        ELSE IF IsHint(m) THEN [same EXCEPT !.branch = "hint"]
        ELSE IF FormatRejected(m) THEN [same EXCEPT !.branch = "invalid"]
        ELSE IF InSolution(m, i) THEN [same EXCEPT !.solved = TRUE, !.branch = "correct"]
        ELSE IF Drained(h - WrongMovePenalty)
             THEN [same EXCEPT !.health = h - WrongMovePenalty, !.game_over = TRUE,
                               !.returned = TRUE, !.branch = "drained"]
             ELSE [same EXCEPT !.health = h - WrongMovePenalty, !.branch = "wrong"]

\* The texts the player types: each of these, padded with up to MaxPad blanks
\* on either side (input() returns the line without its newline).
MaxPad == 1
TypedMoves ==
    { <<"Q", "e", "8", "#">>, <<"Q", "e", "8">>, <<"Q", "d", "5">>, <<"Q", "d", "5", "+">>,
      <<"R", "a", "8", "#">>, <<"R", "a", "8">>, <<"Q", "e", "7">>, <<"q", "e", "8">>,
      <<"Q", "d", "5", "#">>, <<"e", "4">>, <<"Z", "9">>, <<>>, <<"Q", " ", "e", "8">>,
      <<"h", "i", "n", "t">>, <<"q", "u", "i", "t">>, <<"Q", "U", "I", "T">>,
      <<"H", "i", "n", "t">> }
Lines ==
    {Rep(" ", a) \o m \o Rep(" ", b) : a \in 0..MaxPad, b \in 0..MaxPad, m \in TypedMoves}
        \cup {<<"Q", "e", "8", "\f">>, <<"\t", "Q", "e", "7">>, <<"<vt>", "q", "u", "i", "t">>,
              <<"R", "a", "8", "<fs>", " ">>}

\* play(), line 400: display_intro, whose input() (line 203) returns
Intro ==
    /\ pc = "intro"
    /\ prompt' = "returned"
    /\ pc' = "play"
    /\ UNCHANGED <<player_health, current_room, solved, game_over, line, ending, wrong_moves>>

\* display_intro, line 203: input() raises; play() is left, main() catches
\* the exception (lines 422-425)
IntroInterrupted ==
    /\ pc = "intro"
    /\ prompt' = "raised"
    /\ pc' = "aborted"
    /\ UNCHANGED <<player_health, current_room, solved, game_over, line, ending, wrong_moves>>

\* play(), line 402 with a true condition: play_room is entered (lines 347-353)
PlayLoopEnter ==
    /\ pc = "play"
    /\ PlayLoopCond(current_room, game_over, player_health)
    /\ pc' = "room"
    /\ UNCHANGED <<player_health, current_room, solved, game_over, line, prompt, ending,
                   wrong_moves>>

\* play(), lines 402-403 where the time.sleep of typewriter_effect
\* (line 353, line 214) is interrupted on the way into the room
EnterRoomInterrupted ==
    /\ pc = "play"
    /\ PlayLoopCond(current_room, game_over, player_health)
    /\ pc' = "aborted"
    /\ UNCHANGED <<player_health, current_room, solved, game_over, line, prompt, ending,
                   wrong_moves>>

\* play_room, one iteration of the loop (lines 355-387) on the input l; the
\* sleeps after a right answer (lines 377, 379) end
PlayRoomStep(l) ==
    /\ pc = "room"
    /\ RoomLoopCond(solved[current_room], player_health)
    /\ line' = l
    /\ prompt' = "returned"
    /\ LET r == play_room_input(current_room, player_health, l) IN
         /\ player_health' = r.health
         /\ solved' = IF r.solved THEN [solved EXCEPT ![current_room] = TRUE] ELSE solved
         /\ game_over' = (game_over \/ r.game_over)
         /\ pc' = IF r.returned THEN "after_room" ELSE "room"
         /\ ending' = IF r.branch \in {"quit", "drained"} THEN r.branch ELSE ending
         /\ wrong_moves' = IF r.branch \in {"wrong", "drained"}
                           THEN wrong_moves + 1 ELSE wrong_moves
    /\ UNCHANGED current_room

\* play_room, lines 359-379 on a right answer l where a sleep after
\* room.solved = True (line 377, or line 214 from line 379) is interrupted
SolvedInterrupted(l) ==
    /\ pc = "room"
    /\ RoomLoopCond(solved[current_room], player_health)
    /\ play_room_input(current_room, player_health, l).branch = "correct"
    /\ line' = l
    /\ prompt' = "returned"
    /\ solved' = [solved EXCEPT ![current_room] = TRUE]
    /\ pc' = "aborted"
    /\ UNCHANGED <<player_health, current_room, game_over, ending, wrong_moves>>

\* play_room, line 359: input() raises inside the loop; play_room and play()
\* are left with the state as it is, main() catches the exception
PlayRoomInterrupted ==
    /\ pc = "room"
    /\ RoomLoopCond(solved[current_room], player_health)
    /\ prompt' = "raised"
    /\ pc' = "aborted"
    /\ UNCHANGED <<player_health, current_room, solved, game_over, line, ending, wrong_moves>>

\* play_room, line 355 with a false condition: the function returns
RoomLoopExit ==
    /\ pc = "room"
    /\ ~RoomLoopCond(solved[current_room], player_health)
    /\ pc' = "after_room"
    /\ UNCHANGED <<player_health, current_room, solved, game_over, line, prompt, ending,
                   wrong_moves>>

\* play(), lines 405-408; the input() of line 408, when reached, returns
AfterRoom ==
    /\ pc = "after_room"
    /\ current_room' = IF ~game_over /\ solved[current_room]
                       THEN NextRoom(current_room) ELSE current_room
    /\ prompt' = IF ~game_over /\ solved[current_room] /\ NextRoom(current_room) < NumRooms
                 THEN "returned" ELSE prompt
    /\ pc' = "play"
    /\ UNCHANGED <<player_health, solved, game_over, line, ending, wrong_moves>>

\* play(), lines 405-408 where the input() of line 408 raises: current_room
\* is already advanced
AfterRoomInterrupted ==
    /\ pc = "after_room"
    /\ ~game_over /\ solved[current_room]
    /\ NextRoom(current_room) < NumRooms
    /\ current_room' = NextRoom(current_room)
    /\ prompt' = "raised"
    /\ pc' = "aborted"
    /\ UNCHANGED <<player_health, solved, game_over, line, ending, wrong_moves>>

\* play(), line 402 with a false condition, then lines 410-415; the input()
\* of record_in_hall_of_souls (line 294), when reached, returns
PlayLoopExit ==
    /\ pc = "play"
    /\ ~PlayLoopCond(current_room, game_over, player_health)
    /\ ending' = IF current_room >= NumRooms /\ ~game_over THEN "victory" ELSE ending
    /\ prompt' = IF current_room >= NumRooms /\ ~game_over THEN "returned" ELSE prompt
    /\ pc' = "done"
    /\ UNCHANGED <<player_health, current_room, solved, game_over, line, wrong_moves>>

\* play(), lines 410-412 where a time.sleep of display_victory_cutscene
\* (lines 220, 267, 286) is interrupted, before the input() of line 294
CutsceneInterrupted ==
    /\ pc = "play"
    /\ ~PlayLoopCond(current_room, game_over, player_health)
    /\ current_room >= NumRooms /\ ~game_over
    /\ ending' = "victory"
    /\ pc' = "aborted"
    /\ UNCHANGED <<player_health, current_room, solved, game_over, line, prompt, wrong_moves>>

\* play(), lines 410-413 where the input() of line 294 raises after the
\* cutscene: play() is left from inside the victory branch
VictoryInterrupted ==
    /\ pc = "play"
    /\ ~PlayLoopCond(current_room, game_over, player_health)
    /\ current_room >= NumRooms /\ ~game_over
    /\ ending' = "victory"
    /\ prompt' = "raised"
    /\ pc' = "aborted"
    /\ UNCHANGED <<player_health, current_room, solved, game_over, line, wrong_moves>>

(***************************************************************************)
(* Specifications                                                          *)
(***************************************************************************)
\* The variables a specification does not use keep these values.
IdleFormat == move = <<>> /\ format_result = "unset"
IdleBoard ==
    /\ fen = <<>>
    /\ board = BlankBoard
    /\ to_move = <<"w">>
    /\ written = {}
    /\ board_pc = "new"
    /\ square = <<>>
    /\ lookup = NoLookup
IdleGame ==
    /\ player_health = InitialHealth
    /\ current_room = 0
    /\ solved = [i \in RoomIds |-> FALSE]
    /\ game_over = FALSE
    /\ pc = "idle"
    /\ line = <<>>
    /\ prompt = "none"
    /\ ending = "none"
    /\ wrong_moves = 0

InitFormat ==
    /\ move \in MoveInputs
    /\ format_result = "unset"
    /\ IdleBoard
    /\ IdleGame
NextFormat == IsValidMoveFormat /\ UNCHANGED <<boardVars, gameVars>>
SpecFormat == InitFormat /\ [][NextFormat]_vars

\* a ChessBoard about to be constructed from fen (line 18-19 have run)
InitFen ==
    /\ fen \in FenInputs
    /\ board = BlankBoard
    /\ to_move = <<"w">>
    /\ written = {}
    /\ board_pc = "new"
    /\ square = <<>>
    /\ lookup = NoLookup
    /\ IdleFormat
    /\ IdleGame
NextFen ==
    \/ ConstructBoard /\ UNCHANGED <<formatVars, gameVars>>
    \/ \E sq \in CellLabels :
         \* one lookup per constructed board bounds the run
         lookup = NoLookup /\ GetPieceAt(sq) /\ UNCHANGED <<formatVars, gameVars>>
SpecFen == InitFen /\ [][NextFen]_vars

\* the board of one of the rooms, as HauntedRoom.__init__ constructs it
InitLookup ==
    /\ \E i \in RoomIds :
         LET r == parse_fen(BlankBoard, <<"w">>, RoomFen(i)) IN
           /\ fen = RoomFen(i)
           /\ board = r.board
           /\ to_move = r.to_move
           /\ written = r.written
    /\ board_pc = "parsed"
    /\ square = <<>>
    /\ lookup = NoLookup
    /\ IdleFormat
    /\ IdleGame
NextLookup == \E sq \in SquareInputs : GetPieceAt(sq) /\ UNCHANGED <<formatVars, gameVars>>
SpecLookup == InitLookup /\ [][NextLookup]_vars

\* HauntedChessboard.__init__ (lines 137-140), play() about to show the intro
InitGame ==
    /\ player_health = InitialHealth
    /\ current_room = 0
    /\ solved = [i \in RoomIds |-> FALSE]
    /\ game_over = FALSE
    /\ pc = "intro"
    /\ line = <<>>
    /\ prompt = "none"
    /\ ending = "none"
    /\ wrong_moves = 0
    /\ IdleFormat
    /\ IdleBoard
NextGame ==
    \/ Intro /\ UNCHANGED <<formatVars, boardVars>>
    \/ IntroInterrupted /\ UNCHANGED <<formatVars, boardVars>>
    \/ PlayLoopEnter /\ UNCHANGED <<formatVars, boardVars>>
    \/ EnterRoomInterrupted /\ UNCHANGED <<formatVars, boardVars>>
    \/ \E l \in Lines : PlayRoomStep(l) /\ UNCHANGED <<formatVars, boardVars>>
    \/ \E l \in Lines : SolvedInterrupted(l) /\ UNCHANGED <<formatVars, boardVars>>
    \/ PlayRoomInterrupted /\ UNCHANGED <<formatVars, boardVars>>
    \/ RoomLoopExit /\ UNCHANGED <<formatVars, boardVars>>
    \/ AfterRoom /\ UNCHANGED <<formatVars, boardVars>>
    \/ AfterRoomInterrupted /\ UNCHANGED <<formatVars, boardVars>>
    \/ PlayLoopExit /\ UNCHANGED <<formatVars, boardVars>>
    \/ CutsceneInterrupted /\ UNCHANGED <<formatVars, boardVars>>
    \/ VictoryInterrupted /\ UNCHANGED <<formatVars, boardVars>>
SpecGame == InitGame /\ [][NextGame]_vars

(***************************************************************************)
(* Properties                                                              *)
(***************************************************************************)
\* m is, character for character, one of the accepted answers of room i
ExactAnswer(m, i) == \E k \in 1..Len(RoomSolution(i)) : m = RoomSolution(i)[k]

\* play_room is about to call input() (line 359): every step from here is
\* that call, which returns a line (prompt' = "returned") or raises
\* (prompt' = "raised")
AwaitingInput == pc = "room" /\ ~solved[current_room] /\ player_health > 0

\* the text the player typed is one of the two keywords as play_room
\* recognises them (after strip(), whatever the case)
Keyword(l) == Lower(Strip(l)) \in {<<"q", "u", "i", "t">>, <<"h", "i", "n", "t">>}

\* C1 as stated: a room becomes solved only on an input line that passes the
\* format check and is itself, with no normalization, one of the room's
\* accepted-answer strings; health is then unchanged.
C1_ExactLineOnly ==
    [][solved' # solved =>
         /\ is_valid_move_format(Strip(line'))
         /\ ExactAnswer(line', current_room)
         /\ player_health' = player_health]_vars

\* C1 as amended: a room becomes solved only on an input line whose text,
\* after leading and trailing whitespace is stripped, passes the format check
\* and equals, case-sensitively, one of the room's accepted-answer strings;
\* only that room's flag is set and health is unchanged; a well-formed text
\* that is not in the accepted list never marks the room solved.
C1_StrippedExactOnly ==
    /\ [][solved' # solved =>
            /\ AwaitingInput
            /\ prompt' = "returned"
            /\ is_valid_move_format(Strip(line'))
            /\ ExactAnswer(Strip(line'), current_room)
            /\ solved' = [solved EXCEPT ![current_room] = TRUE]
            /\ player_health' = player_health]_vars
    /\ [][(/\ AwaitingInput
           /\ prompt' = "returned"
           /\ is_valid_move_format(Strip(line'))
           /\ ~ExactAnswer(Strip(line'), current_room)) => solved' = solved]_vars

\* C1 witness: a room was solved by a padded line after an earlier penalty
C1_Witness ==
    /\ pc = "room"
    /\ solved[current_room]
    /\ line # Strip(line)
    /\ ExactAnswer(Strip(line), current_room)
    /\ player_health = InitialHealth - 10

\* C2: health starts at 100, changes only by a decrement of exactly 10 and
\* only on an input the format check passes and that is not an accepted
\* answer of the current room, is never negative, and the drained-life branch
\* has set game_over exactly when health is 0.
C2_Health ==
    /\ player_health = 100
    /\ [](player_health >= 0)
    /\ []((ending = "drained") <=> (player_health = 0))
    /\ [](player_health = 0 => game_over)
    /\ [][player_health' # player_health =>
            /\ player_health' = player_health - 10
            /\ AwaitingInput
            /\ prompt' = "returned"
            /\ is_valid_move_format(Strip(line'))
            /\ ~ExactAnswer(Strip(line'), current_room)]_vars

\* C2 witness: ten wrong moves drained the life force
C2_Witness == ending = "drained" /\ player_health = 0 /\ game_over /\ wrong_moves = 10

\* C3: an input that the format check rejects and that is not one of the two
\* keywords changes nothing: health, the solved flags, current_room and
\* game_over keep their values and play_room prompts again in the same room.
C3_InvalidNoChange ==
    [][(/\ AwaitingInput
        /\ prompt' = "returned"
        /\ ~Keyword(line')
        /\ ~is_valid_move_format(Strip(line')))
       => /\ UNCHANGED <<player_health, solved, current_room, game_over, ending>>
          /\ pc' = "room"]_vars

\* C3 witness: "qe8" was typed in the first room after one wrong move
C3_Witness ==
    /\ line = <<"q", "e", "8">>
    /\ prompt = "returned"
    /\ AwaitingInput
    /\ current_room = 0
    /\ player_health = 90

\* C4 as stated: get_piece_at never raises, whatever the square label.
C4_NeverRaises == lookup.exc \in {"uncalled", "none"}

\* C5 as stated: parse_fen never raises: constructing a board from any
\* position description completes, with to_move 'w' when the field is absent.
C5_NeverRaises ==
    board_pc # "new" =>
        /\ board_pc = "parsed"
        /\ (Len(Split(fen)) < 2 => to_move = <<"w">>)

\* The shapes C6 lists
ClaimedShape(m) ==
    LET plain == Len(m) = 3 /\ IsPieceLetter(m[1]) /\ IsFileLetter(m[2]) /\ IsRankDigit(m[3])
        bare == Len(m) = 2 /\ IsFileLetter(m[1]) /\ IsRankDigit(m[2])
        capture == Len(m) = 4 /\ IsPieceLetter(m[1]) /\ m[2] = "x"
                              /\ IsFileLetter(m[3]) /\ IsRankDigit(m[4])
        pawnCapture == Len(m) = 4 /\ IsFileLetter(m[1]) /\ m[2] = "x"
                                  /\ IsFileLetter(m[3]) /\ IsRankDigit(m[4])
        plainSuffixed == Len(m) = 4 /\ IsPieceLetter(m[1]) /\ IsFileLetter(m[2])
                                    /\ IsRankDigit(m[3]) /\ m[4] \in {"+", "#"}
        captureSuffixed == Len(m) = 5 /\ IsPieceLetter(m[1]) /\ m[2] = "x"
                                      /\ IsFileLetter(m[3]) /\ IsRankDigit(m[4])
                                      /\ m[5] \in {"+", "#"}
    IN  \/ plain \/ bare \/ capture \/ pawnCapture
        \/ m = <<"O", "-", "O">> \/ m = <<"O", "-", "O", "-", "O">>
        \/ plainSuffixed \/ captureSuffixed

\* C6 as stated: is_valid_move_format returns true for exactly the strings of
\* the listed shapes (a piece capture suffixed with '+' or '#' among them)
\* and false for every other string.
C6_ExactlyTheShapes ==
    format_result # "unset" => (format_result = "True" <=> ClaimedShape(move))

\* C7: after parse_fen, get_piece_at on the label of a cell it wrote returns
\* the piece code written there, and on the label of a cell it never wrote
\* returns the empty marker.
C7_LookupInvertsPlacement ==
    board_pc = "parsed" =>
        \A r \in Cells, c \in Cells :
            LET got == get_piece_at(board, SquareLabel(r, c)) IN
              /\ got.exc = "none"
              /\ \A w \in written : (w[1] = r /\ w[2] = c) => got.val = w[3]
              /\ (~\E w \in written : w[1] = r /\ w[2] = c) => got.val = " "

\* C7 witness: a lookup returned the piece parse_fen wrote on a square, on a
\* board where another write was dropped
C7_Witness ==
    /\ board_pc = "parsed"
    /\ lookup.exc = "none"
    /\ \E w \in written : square = SquareLabel(w[1], w[2]) /\ lookup.val = w[3]
    /\ Cardinality(written) < Cardinality({i \in 1..Len(Split(fen)[1]) :
                                  ~IsDigit(Split(fen)[1][i]) /\ Split(fen)[1][i] # "/"})

Completed == current_room = NumRooms /\ \A i \in RoomIds : solved[i]
GaveUp == ending = "quit"
HealthZero == player_health = 0

\* play() is over: it returned, or an exception from input() left it
Terminal == pc \in {"done", "aborted"}

ExactlyOneEnding ==
    /\ Completed \/ GaveUp \/ HealthZero
    /\ ~(Completed /\ GaveUp) /\ ~(Completed /\ HealthZero)
    /\ ~(GaveUp /\ HealthZero)

\* the step reads a line that is a hint, that the format check rejects or
\* that is a wrong move, and leaves health above 0
HarmlessInput ==
    /\ AwaitingInput
    /\ prompt' = "returned"
    /\ Lower(Strip(line')) # <<"q", "u", "i", "t">>
    /\ \/ Lower(Strip(line')) = <<"h", "i", "n", "t">>
       \/ ~is_valid_move_format(Strip(line'))
       \/ ~ExactAnswer(Strip(line'), current_room)
    /\ player_health' > 0

\* C8 as stated: play() ends only by completion, by 'quit' or with health 0,
\* exactly one of the three holding in every terminal state; a hint, a
\* rejected input or a wrong move that leaves health above 0 never ends it.
C8_ThreeEndingsOnly ==
    /\ [](Terminal => ExactlyOneEnding)
    /\ [][HarmlessInput
          => pc' = "room" /\ game_over' = game_over /\ ending' = ending]_vars

\* C8 as amended: play() ends only by completion, by 'quit', with health 0,
\* or by an exception raised while the program waits (an input() call at the
\* end of stdin or interrupted, a time.sleep interrupted); exactly one of the
\* first three holds in every terminal state that no such exception produced;
\* a hint, a rejected input or a wrong move that leaves health above 0 never
\* ends it.
C8_Endings ==
    /\ [](pc = "done" => ExactlyOneEnding)
    /\ [][pc' = "aborted" /\ pc # "aborted" =>
            \* an input() call raised
            \/ prompt' = "raised" /\ pc \in {"intro", "room", "after_room", "play"}
            \* a sleep was interrupted: on the way into a room, in the
            \* cutscene, or after a right answer
            \/ prompt' = prompt /\ pc = "play"
            \/ /\ prompt' = "returned" /\ AwaitingInput
               /\ solved'[current_room]
               /\ ExactAnswer(Strip(line'), current_room)]_vars
    /\ [][HarmlessInput
          => pc' = "room" /\ game_over' = game_over /\ ending' = ending]_vars

\* C8 witness: the session ended by 'quit' in the second room
C8_Witness ==
    /\ pc = "done"
    /\ GaveUp
    /\ current_room = 1
    /\ player_health > 0
    /\ prompt = "returned"

\* C9: rooms below current_room are solved and rooms above it are unsolved;
\* a solved room stays solved; current_room changes only by +1 and only when
\* the current room is solved and game_over is false; the victory branch runs
\* only with every room solved, game_over false and health at least 10.
C9_RoomOrder ==
    /\ [](\A i \in RoomIds : /\ i < current_room => solved[i]
                             /\ i > current_room => ~solved[i])
    /\ [](ending = "victory" =>
            /\ \A i \in RoomIds : solved[i]
            /\ ~game_over
            /\ player_health >= 10)
    /\ [][\A i \in RoomIds : solved[i] => solved'[i]]_vars
    /\ [][current_room' # current_room =>
            /\ current_room' = current_room + 1
            /\ solved[current_room]
            /\ ~game_over]_vars

\* C9 witness: victory with the last unit of life force
C9_Witness == ending = "victory" /\ player_health = 10 /\ current_room = NumRooms

\* C10: every accepted answer of every room passes the format check; whenever
\* play_room awaits an input there is one that marks the room solved; a
\* session without a wrong move reaches victory with health 100.
C10_Solvable ==
    /\ \A i \in RoomIds : \A k \in 1..Len(RoomSolution(i)) :
          /\ is_valid_move_format(RoomSolution(i)[k])
          /\ play_room_input(i, InitialHealth, RoomSolution(i)[k]).solved
    /\ AwaitingInput =>
          \E l \in Lines : play_room_input(current_room, player_health, l).solved
    /\ (ending = "victory" /\ wrong_moves = 0) => player_health = 100

\* C10 witness: victory without a wrong move
C10_Witness == pc = "done" /\ ending = "victory" /\ wrong_moves = 0 /\ player_health = 100

====
